---- MODULE Spec2Model ----
(***************************************************************************)
(* QtOcv pixel-buffer converter (src/cvmatandqimage.cpp): image2Mat,       *)
(* mat2Image, image2Mat_shared, mat2Image_shared.                          *)
(*                                                                         *)
(* Memory is a heap of buffers; a QImage or a cv::Mat is a header (format, *)
(* geometry, stride) plus a pointer (buf, off) into the heap.  A copying   *)
(* conversion allocates a new buffer, a shared one reuses the pointer.     *)
(* One heap cell is one sample: a byte for every 8-bit buffer, a 16-bit    *)
(* value for CV_16U, a numerator n (the float n/FloatDen) for CV_32F.  The *)
(* stride of a header is counted in cells, which is bytes for 8-bit data,  *)
(* the only data whose stride the code passes on.                          *)
(* A cell nobody wrote holds Uninit, and so does a value computed from     *)
(* such a cell: its content is indeterminate.  The host is little-endian:  *)
(* a QRgb 0xAARRGGBB lies in memory as B, G, R, A.                         *)
(* Q_ASSERT aborts in a debug build and is empty under QT_NO_DEBUG; the    *)
(* build is the variable noDebug.                                          *)
(***************************************************************************)
EXTENDS Integers, Sequences, FiniteSets, TLC

VARIABLES
    noDebug,    \* the build: TRUE when QT_NO_DEBUG empties Q_ASSERT
    heap,       \* the buffers allocated so far, by buffer number
    arg,        \* the object the caller passes to the next call
    res,        \* the object the last call returned, or none
    outcome,    \* "none" before a call, then "returned" or "aborted"
    hist,       \* the calls made so far: <<[name, ch, fmt]>>
    nread,      \* pixel cells the last call read
    nalloc,     \* buffers the last call allocated
    lastWrite,  \* the caller's last write into the source of the last view
    nwrites,    \* how many writes into sources the caller has made
    budget,     \* how many calls the caller makes
    x0          \* the object the caller started from

vars == <<noDebug, heap, arg, res, outcome, hist, nread, nalloc, lastWrite,
          nwrites, budget, x0>>

\* ---------------------------------------------------------------- bounds
MaxW == 2
MaxH == 2
MaxCalls == 1
MaxChain == 3
MaxWrites == 2

\* ------------------------------------------------------ program constants
W_B == 3728
W_G == 19238
W_R == 9798
LumaDiv == 32768
Opaque == 255
Max16 == 65535
FloatDen == 256
Uninit == -1
IntMax == 2147483647

\* ------------------------------------------------------------ arithmetic
Pow2(n) == IF n = 0 THEN 1 ELSE IF n = 1 THEN 2 ELSE IF n = 2 THEN 4
           ELSE IF n = 3 THEN 8 ELSE IF n = 4 THEN 16 ELSE IF n = 5 THEN 32
           ELSE IF n = 6 THEN 64 ELSE 128

\* cvRound: to the nearest integer, a tie to the even one (num/den, den > 0).
CvRound(num, den) ==
    LET q == num \div den
        r == num - q * den
    IN IF 2 * r < den THEN q
       ELSE IF 2 * r > den THEN q + 1
       ELSE IF q % 2 = 0 THEN q ELSE q + 1

\* saturate_cast<uchar>
SaturateU8(v) == IF v < 0 THEN 0 ELSE IF v > 255 THEN 255 ELSE v

\* ---------------------------------------------------------------- QImage
CanonicalFormats == {"Indexed8", "RGB32", "ARGB32", "RGB888"}
MonoFormats == {"Mono", "MonoLSB"}
PackedRgbFormats == {"RGB16"}
OtherFormats == {"ARGB32_Premultiplied"}
ImageFormats == CanonicalFormats \cup MonoFormats \cup PackedRgbFormats \cup OtherFormats

\* QImage::depth(): bits per pixel.
Depth(fmt) ==
    CASE fmt = "Indexed8" -> 8
      [] fmt = "RGB888" -> 24
      [] fmt \in {"RGB32", "ARGB32", "ARGB32_Premultiplied"} -> 32
      [] fmt \in MonoFormats -> 1
      [] fmt = "RGB16" -> 16
      [] OTHER -> 0

\* QImage rows are 32-bit aligned.
BytesPerLine(fmt, w) == ((w * Depth(fmt) + 31) \div 32) * 4

NullImage == [kind |-> "image", fmt |-> "Invalid", w |-> 0, h |-> 0, bpl |-> 0,
              buf |-> 0, off |-> 0, ct |-> "none"]

\* QImage(w, h, format): null when a dimension is not positive.
NewImage(w, h, fmt, b) ==
    IF w <= 0 \/ h <= 0 THEN NullImage
    ELSE [kind |-> "image", fmt |-> fmt, w |-> w, h |-> h,
          bpl |-> BytesPerLine(fmt, w), buf |-> b, off |-> 0, ct |-> "none"]

\* QImage(data, w, h, bytesPerLine, format): a header over foreign memory.
ImageOver(b, o, w, h, bpl, fmt, ct) ==
    IF w <= 0 \/ h <= 0 \/ b = 0 THEN NullImage
    ELSE [kind |-> "image", fmt |-> fmt, w |-> w, h |-> h, bpl |-> bpl,
          buf |-> b, off |-> o, ct |-> ct]

isNull(img) == img.buf = 0

\* *(image.scanLine(i) + k)
ScanByte(h, img, i, k) == h[img.buf][img.off + i * img.bpl + k + 1]

\* --------------------------------------------------------------- cv::Mat
MatDepths == {"8U", "16U", "32F", "64F"}

EmptyMat == [kind |-> "mat", depth |-> "8U", cn |-> 1, rows |-> 0, cols |-> 0,
             step |-> 0, buf |-> 0, off |-> 0]

\* cv::Mat(rows, cols, type): continuous rows.
NewMat(rows, cols, depth, cn, b) ==
    [kind |-> "mat", depth |-> depth, cn |-> cn, rows |-> rows, cols |-> cols,
     step |-> cols * cn, buf |-> b, off |-> 0]

\* cv::Mat(rows, cols, type, data, step): a header over foreign memory.
MatOver(b, o, rows, cols, depth, cn, step) ==
    [kind |-> "mat", depth |-> depth, cn |-> cn, rows |-> rows, cols |-> cols,
     step |-> step, buf |-> b, off |-> o]

\* cv::Mat::empty()
empty(m) == m.buf = 0 \/ m.rows * m.cols = 0

\* mat.at<Vec>(i, j)[c]
At(h, m, i, j, c) == h[m.buf][m.off + i * m.step + j * m.cn + c + 1]

\* ------------------------------------------------------------------ heap
\* A call's return: the heap after it, the object returned, the number of
\* source cells it read, the number of buffers it allocated, how it ended.
Ret(h, r, nr, na) == [heap |-> h, res |-> r, nread |-> nr, nalloc |-> na, outcome |-> "returned"]
Abort(h) == [heap |-> h, res |-> [kind |-> "none"], nread |-> 0, nalloc |-> 0, outcome |-> "aborted"]

\* Q_ASSERT(cond): aborts unless QT_NO_DEBUG.
AssertFails(nd, cond) == ~nd /\ ~cond

\* ----------------------------------------------- QImage::convertToFormat
\* Mono / MonoLSB -> Indexed8: one index byte per bit, the colour table kept.
MonoToIndexed8(h, img) ==
    LET bpl == BytesPerLine("Indexed8", img.w)
        cell(idx) ==
            LET i == (idx - 1) \div bpl
                o == (idx - 1) % bpl
                byte == ScanByte(h, img, i, o \div 8)
            IN IF o >= img.w THEN Uninit
               ELSE IF img.fmt = "Mono" THEN (byte \div Pow2(7 - (o % 8))) % 2
               ELSE (byte \div Pow2(o % 8)) % 2
    IN [heap |-> Append(h, [idx \in 1..(bpl * img.h) |-> cell(idx)]),
        image |-> [NewImage(img.w, img.h, "Indexed8", Len(h) + 1) EXCEPT !.ct = img.ct]]

\* RGB16 (5-6-5, little-endian ushort) -> RGB888: R, G, B bytes.
Rgb16ToRgb888(h, img) ==
    LET bpl == BytesPerLine("RGB888", img.w)
        cell(idx) ==
            LET i == (idx - 1) \div bpl
                o == (idx - 1) % bpl
                j == o \div 3
                px == ScanByte(h, img, i, 2 * j) + 256 * ScanByte(h, img, i, 2 * j + 1)
                r5 == px \div 2048
                g6 == (px \div 32) % 64
                b5 == px % 32
            IN IF o >= 3 * img.w THEN Uninit
               ELSE IF o % 3 = 0 THEN r5 * 8 + r5 \div 4
               ELSE IF o % 3 = 1 THEN g6 * 4 + g6 \div 16
               ELSE b5 * 8 + b5 \div 4
    IN [heap |-> Append(h, [idx \in 1..(bpl * img.h) |-> cell(idx)]),
        image |-> NewImage(img.w, img.h, "RGB888", Len(h) + 1)]

\* ARGB32_Premultiplied -> RGB32: colour divided by alpha, alpha set to 0xff.
PremulToRgb32(h, img) ==
    LET bpl == BytesPerLine("RGB32", img.w)
        cell(idx) ==
            LET i == (idx - 1) \div bpl
                o == (idx - 1) % bpl
                j == o \div 4
                a == ScanByte(h, img, i, 4 * j + 3)
                v == ScanByte(h, img, i, o)
            IN IF o % 4 = 3 THEN Opaque
               ELSE IF a = 0 THEN 0
               ELSE (255 * v) \div a
    IN [heap |-> Append(h, [idx \in 1..(bpl * img.h) |-> cell(idx)]),
        image |-> NewImage(img.w, img.h, "RGB32", Len(h) + 1)]

\* The switch of image2Mat: the image the remapper reads.
Normalize(h, img) ==
    IF img.fmt \in CanonicalFormats THEN [heap |-> h, image |-> img]
    ELSE IF img.fmt \in MonoFormats THEN MonoToIndexed8(h, img)
    ELSE IF img.fmt \in PackedRgbFormats THEN Rgb16ToRgb888(h, img)
    ELSE PremulToRgb32(h, img)

\* ------------------------------------------------------------- image2Mat
\* The luminance of one pixel from its first three bytes in memory.
\* Mutant: the weights bound to the bytes in the opposite order.
LumaSum_reversed(d0, d1, d2) == d0 * W_R + d1 * W_G + d2 * W_B

LumaSum(d0, d1, d2) == d0 * W_B + d1 * W_G + d2 * W_R
Luminance(d0, d1, d2) ==
    IF Uninit \in {d0, d1, d2} THEN Uninit
    ELSE (LumaSum(d0, d1, d2) \div LumaDiv) % 256

\* The byte the remapper stores at row i, column j, channel c.
RemapByte(h, image, channels, i, j, c) ==
    LET bpp == Depth(image.fmt) \div 8
    IN IF channels = 1 THEN
           IF image.fmt = "Indexed8" THEN
               ScanByte(h, image, i, j)
           ELSE Luminance(ScanByte(h, image, i, j * bpp),
                          ScanByte(h, image, i, j * bpp + 1),
                          ScanByte(h, image, i, j * bpp + 2))
       ELSE IF channels = 3 THEN
           IF image.fmt = "Indexed8" THEN ScanByte(h, image, i, j)
           ELSE IF image.fmt = "RGB888" THEN
               ScanByte(h, image, i, 3 * j + c)
           ELSE ScanByte(h, image, i, 4 * j + c)
       ELSE IF channels = 4 THEN
           IF image.fmt = "Indexed8" THEN
               IF c < 3 THEN ScanByte(h, image, i, j) ELSE Opaque
           ELSE IF image.fmt = "RGB888" THEN
               IF c < 3 THEN ScanByte(h, image, i, 3 * j + c) ELSE Opaque
           ELSE ScanByte(h, image, i, 4 * j + c)
       ELSE Uninit

\* The source cells one destination pixel reads.
RemapReads(image, channels) ==
    IF image.fmt = "Indexed8" THEN 1
    ELSE IF channels = 1 THEN 3
    ELSE IF image.fmt = "RGB888" THEN 3
    ELSE channels

\* The conversion proper of image2Mat: normalise, allocate, remap row by row.
Remap(h, img, mat_channels) ==
    LET n == Normalize(h, img)
        image == n.image
        channels == IF mat_channels = 0 THEN Depth(image.fmt) \div 8 ELSE mat_channels
        mat == NewMat(image.h, image.w, "8U", channels, Len(n.heap) + 1)
        cell(idx) ==
            LET i == (idx - 1) \div mat.step
                j == ((idx - 1) % mat.step) \div channels
                c == (idx - 1) % channels
            IN RemapByte(n.heap, image, channels, i, j, c)
    IN Ret(Append(n.heap, [idx \in 1..(mat.rows * mat.step) |-> cell(idx)]),
           mat,
           (Len(n.heap) - Len(h)) * img.w * img.h
               + mat.rows * mat.cols * RemapReads(image, channels),
           Len(n.heap) - Len(h) + 1)

\* Mutant: the channel count is guarded by the Q_ASSERT alone.
image2Mat_assertOnly(h, img, mat_channels, nd) ==
    IF AssertFails(nd, mat_channels \in {0, 1, 3, 4}) THEN Abort(h)
    ELSE IF isNull(img) THEN Ret(h, EmptyMat, 0, 0)
    ELSE Remap(h, img, mat_channels)

image2Mat(h, img, mat_channels, nd) ==
    IF AssertFails(nd, mat_channels \in {0, 1, 3, 4}) THEN Abort(h)
    ELSE IF mat_channels \notin {0, 1, 3, 4} THEN Ret(h, EmptyMat, 0, 0)
    ELSE IF isNull(img) THEN Ret(h, EmptyMat, 0, 0)
    ELSE Remap(h, img, mat_channels)

\* ------------------------------------------------------------- mat2Image
\* *(mat.row(i).data + k)
RowByte(h, m, i, k) == h[m.buf][m.off + i * m.step + k + 1]

\* Mutant: the scaled value truncated instead of rounded.
convertTo_truncating(h, mat, num, den) ==
    LET mat_b == NewMat(mat.rows, mat.cols, "8U", mat.cn, Len(h) + 1)
        cell(idx) ==
            LET i == (idx - 1) \div mat_b.step
                k == (idx - 1) % mat_b.step
                v == RowByte(h, mat, i, k)
            IN IF v = Uninit THEN Uninit ELSE SaturateU8((v * num) \div den)
    IN [heap |-> Append(h, [idx \in 1..(mat_b.rows * mat_b.step) |-> cell(idx)]),
        mat |-> mat_b]

\* mat.convertTo(mat_b, CV_8U, alpha): saturate_cast<uchar>(cvRound(v * alpha)),
\* alpha = num/den, into a new continuous matrix of the same channel count.
convertTo(h, mat, num, den) ==
    LET mat_b == NewMat(mat.rows, mat.cols, "8U", mat.cn, Len(h) + 1)
        cell(idx) ==
            LET i == (idx - 1) \div mat_b.step
                k == (idx - 1) % mat_b.step
                v == RowByte(h, mat, i, k)
            IN IF v = Uninit THEN Uninit ELSE SaturateU8(CvRound(v * num, den))
    IN [heap |-> Append(h, [idx \in 1..(mat_b.rows * mat_b.step) |-> cell(idx)]),
        mat |-> mat_b]

\* The Depth Normalizer of mat2Image: mat_b.
DepthNormalize(h, mat) ==
    IF mat.depth = "8U" THEN [heap |-> h, mat |-> mat]
    ELSE IF mat.depth = "16U" THEN convertTo(h, mat, 255, Max16)
    ELSE IF mat.depth = "32F" THEN convertTo(h, mat, 255, FloatDen)
    ELSE [heap |-> h, mat |-> EmptyMat]

\* cv::cvtColor(mat_b, mat_b, CV_BGR2GRAY / CV_BGRA2GRAY, 1): 14-bit fixed point
\* 0.114 B + 0.587 G + 0.299 R, rounded, into a new one-channel matrix.
cvtColorGray(h, mat) ==
    LET g == NewMat(mat.rows, mat.cols, "8U", 1, Len(h) + 1)
        cell(idx) ==
            LET i == (idx - 1) \div g.step
                j == (idx - 1) % g.step
            IN IF Uninit \in {At(h, mat, i, j, 0), At(h, mat, i, j, 1), At(h, mat, i, j, 2)}
               THEN Uninit
               ELSE (At(h, mat, i, j, 0) * 1868 + At(h, mat, i, j, 1) * 9617
                     + At(h, mat, i, j, 2) * 4899 + 8192) \div 16384
    IN [heap |-> Append(h, [idx \in 1..(g.rows * g.step) |-> cell(idx)]), mat |-> g]

\* Mutant: the alpha byte of a pixel copied from three channels is skipped.
Rgb32Byte_noAlpha(h, mat_b, i, o) ==
    LET j == o \div 4
        c == o % 4
    IN IF i >= mat_b.rows THEN Uninit
       ELSE IF mat_b.cn = 1 THEN (IF c < 3 THEN At(h, mat_b, i, j, 0) ELSE Opaque)
       ELSE IF mat_b.cn = 3 THEN (IF c < 3 THEN At(h, mat_b, i, j, c) ELSE Uninit)
       ELSE IF mat_b.cn = 4 THEN RowByte(h, mat_b, i, o)
       ELSE Uninit

\* The byte mat2Image stores at row i, byte offset o of a Format_RGB32 row.
Rgb32Byte(h, mat_b, i, o) ==
    LET j == o \div 4
        c == o % 4
    IN IF i >= mat_b.rows THEN Uninit
       ELSE IF mat_b.cn = 1 THEN (IF c < 3 THEN At(h, mat_b, i, j, 0) ELSE Opaque)
       ELSE IF mat_b.cn = 3 THEN (IF c < 3 THEN At(h, mat_b, i, j, c) ELSE Opaque)
       ELSE IF mat_b.cn = 4 THEN RowByte(h, mat_b, i, o)
       ELSE Uninit

\* Mutant: three channels stored in the opposite order (B, G, R -> R, G, B).
Rgb888Byte_swapped(h, mat_b, i, o) ==
    LET j == o \div 3
        c == o % 3
    IN IF i >= mat_b.rows \/ o >= 3 * mat_b.cols THEN Uninit
       ELSE IF mat_b.cn = 1 THEN At(h, mat_b, i, j, 0)
       ELSE IF mat_b.cn = 3 THEN At(h, mat_b, i, j, 2 - c)
       ELSE IF mat_b.cn = 4 THEN At(h, mat_b, i, j, c)
       ELSE Uninit

\* The byte mat2Image stores at row i, byte offset o of a Format_RGB888 row.
Rgb888Byte(h, mat_b, i, o) ==
    LET j == o \div 3
        c == o % 3
    IN IF i >= mat_b.rows \/ o >= 3 * mat_b.cols THEN Uninit
       ELSE IF mat_b.cn = 1 THEN At(h, mat_b, i, j, 0)
       ELSE IF mat_b.cn = 3 THEN RowByte(h, mat_b, i, o)
       ELSE IF mat_b.cn = 4 THEN At(h, mat_b, i, j, c)
       ELSE Uninit

\* The byte mat2Image stores at row i, byte offset o of a Format_Indexed8 row.
Indexed8Byte(h, mat_b, i, o) ==
    IF i >= mat_b.rows \/ o >= mat_b.cols THEN Uninit ELSE RowByte(h, mat_b, i, o)

\* outImage filled row by row from mat_b; a null outImage allocates nothing.
FillImage(h0, h, outImage, mat_b, nr) ==
    LET cell(idx) ==
            LET i == (idx - 1) \div outImage.bpl
                o == (idx - 1) % outImage.bpl
            IN IF outImage.fmt = "RGB32" THEN Rgb32Byte(h, mat_b, i, o)
               ELSE IF outImage.fmt = "RGB888" THEN Rgb888Byte(h, mat_b, i, o)
               ELSE Indexed8Byte(h, mat_b, i, o)
    IN IF isNull(outImage) THEN Ret(h, NullImage, nr, Len(h) - Len(h0))
       ELSE Ret(Append(h, [idx \in 1..(outImage.bpl * outImage.h) |-> cell(idx)]),
                outImage,
                nr + mat_b.rows * mat_b.cols * mat_b.cn,
                Len(h) - Len(h0) + 1)

\* Mutant: outImage sized from the source matrix.
OutCols_source(mat_b, mat) == mat.cols

\* The width of outImage: QImage(mat_b.cols, mat.rows, format).
OutCols(mat_b, mat) == mat_b.cols

mat2Image(h, mat, format, nd) ==
    IF AssertFails(nd, mat.depth \in {"8U", "16U", "32F"}) THEN Abort(h)
    ELSE IF AssertFails(nd, format \in {"RGB32", "RGB888", "Indexed8"}) THEN Abort(h)
    ELSE IF empty(mat) THEN Ret(h, NullImage, 0, 0)
    ELSE
        LET d == DepthNormalize(h, mat)
            nr == (Len(d.heap) - Len(h)) * mat.rows * mat.cols * mat.cn
        IN IF format = "RGB32" THEN
               FillImage(h, d.heap, NewImage(OutCols(d.mat, mat), mat.rows, "RGB32", Len(d.heap) + 1),
                         d.mat, nr)
           ELSE IF format = "RGB888" THEN
               FillImage(h, d.heap, NewImage(OutCols(d.mat, mat), mat.rows, "RGB888", Len(d.heap) + 1),
                         d.mat, nr)
           ELSE IF format = "Indexed8" THEN
               LET g == IF d.mat.depth = "8U" /\ d.mat.cn \in {3, 4}
                        THEN cvtColorGray(d.heap, d.mat) ELSE d
                   outImage == NewImage(OutCols(g.mat, mat), g.mat.rows, "Indexed8", Len(g.heap) + 1)
               IN FillImage(h, g.heap,
                            IF isNull(outImage) THEN outImage
                            ELSE [outImage EXCEPT !.ct = "gray"],
                            g.mat, nr)
           ELSE Ret(d.heap, NullImage, nr, Len(d.heap) - Len(h))

\* ------------------------------------------------------ image2Mat_shared
\* Mutant: the view built with the packed row length for its stride.
image2Mat_shared_packed(h, img, nd) ==
    IF AssertFails(nd, img.fmt \in {"Indexed8", "RGB888", "RGB32", "ARGB32"}) THEN Abort(h)
    ELSE IF isNull(img) THEN Ret(h, EmptyMat, 0, 0)
    ELSE IF img.fmt \in {"Indexed8", "RGB888", "RGB32", "ARGB32"} THEN
        Ret(h, MatOver(img.buf, img.off, img.h, img.w, "8U", Depth(img.fmt) \div 8,
                       img.w * (Depth(img.fmt) \div 8)), 0, 0)
    ELSE Ret(h, EmptyMat, 0, 0)

\* Mutant: no switch on the format, every non-null image is viewed.
image2Mat_shared_anyFormat(h, img, nd) ==
    IF AssertFails(nd, img.fmt \in {"Indexed8", "RGB888", "RGB32", "ARGB32"}) THEN Abort(h)
    ELSE IF isNull(img) THEN Ret(h, EmptyMat, 0, 0)
    ELSE Ret(h, MatOver(img.buf, img.off, img.h, img.w, "8U", Depth(img.fmt) \div 8, img.bpl), 0, 0)

image2Mat_shared(h, img, nd) ==
    IF AssertFails(nd, img.fmt \in {"Indexed8", "RGB888", "RGB32", "ARGB32"}) THEN Abort(h)
    ELSE IF isNull(img) THEN Ret(h, EmptyMat, 0, 0)
    ELSE IF img.fmt \in {"Indexed8", "RGB888", "RGB32", "ARGB32"} THEN
        Ret(h, MatOver(img.buf, img.off, img.h, img.w, "8U", Depth(img.fmt) \div 8, img.bpl), 0, 0)
    ELSE Ret(h, EmptyMat, 0, 0)

\* ------------------------------------------------------ mat2Image_shared
mat2Image_shared(h, mat, nd) ==
    IF AssertFails(nd, mat.depth = "8U" /\ mat.cn \in {1, 3, 4}) THEN Abort(h)
    ELSE IF empty(mat) THEN Ret(h, NullImage, 0, 0)
    ELSE IF mat.depth = "8U" /\ mat.cn = 1 THEN
        Ret(h, ImageOver(mat.buf, mat.off, mat.cols, mat.rows, mat.step, "Indexed8", "gray"), 0, 0)
    ELSE IF mat.depth = "8U" /\ mat.cn = 3 THEN
        Ret(h, ImageOver(mat.buf, mat.off, mat.cols, mat.rows, mat.step, "RGB888", "none"), 0, 0)
    ELSE IF mat.depth = "8U" /\ mat.cn = 4 THEN
        Ret(h, ImageOver(mat.buf, mat.off, mat.cols, mat.rows, mat.step, "ARGB32", "none"), 0, 0)
    ELSE Ret(h, NullImage, 0, 0)

\* ---------------------------------------------------------------- inputs
Samples8 == <<0, 0, 0, 255, 255, 255, 10, 20, 30, 255, 0, 0, 0, 0, 255, 200, 100, 50>>
Samples16 == <<0, 0, 0, 65535, 65535, 65535, 32768, 128, 129, 257, 1000, 40000>>
Samples32 == <<0, 0, 0, 256, 256, 256, 128, 384, -64, 64, 1, 3>>
Seeds == 0..5

\* The n-th sample of the stream a seed selects: three samples per seed step.
Sample(tab, seed, n) == tab[((3 * seed + n) % Len(tab)) + 1]

\* A QImage of the caller, w x h pixels of fmt: one QImage allocated (rows
\* padded to 32 bits), or with tight a QImage over the caller's own packed
\* buffer (rows of w * bytes-per-pixel bytes).
ImageInput(fmt, w, h, seed, tight) ==
    LET bpp == Depth(fmt) \div 8
        bpl == IF tight /\ bpp > 0 THEN w * bpp ELSE BytesPerLine(fmt, w)
        cell(idx) ==
            LET i == (idx - 1) \div bpl
                o == (idx - 1) % bpl
                k == i * w + (o \div 4)
                transparent == \A c \in 0..2 : Sample(Samples8, seed, 3 * k + c) = 0
            IN IF fmt \in MonoFormats THEN
                   (IF o = 0 THEN Sample(Samples8, seed, i) ELSE Uninit)
               ELSE IF o >= w * bpp THEN Uninit
               ELSE IF bpp < 4 THEN Sample(Samples8, seed, i * w * bpp + o)
               ELSE IF o % 4 < 3 THEN Sample(Samples8, seed, 3 * k + (o % 4))
               ELSE IF fmt = "RGB32" THEN Opaque
               ELSE IF fmt = "ARGB32" THEN Sample(Samples8, seed, k + 1)
               ELSE IF transparent THEN 0 ELSE Opaque
    IN [heap |-> << [idx \in 1..(bpl * h) |-> cell(idx)] >>,
        arg |-> ImageOver(1, 0, w, h, bpl, fmt,
                          IF fmt \in MonoFormats \cup {"Indexed8"} THEN "custom" ELSE "none")]

\* A cv::Mat the caller owns: continuous, or a region of a larger matrix
\* (roi: the data starts inside the buffer and the rows are padded).
MatInput(depth, cn, rows, cols, seed, roi) ==
    LET step == cols * cn + (IF roi THEN 2 ELSE 0)
        off == IF roi THEN 1 ELSE 0
        tab == IF depth = "8U" THEN Samples8
               ELSE IF depth = "16U" THEN Samples16 ELSE Samples32
        cell(idx) ==
            LET i == (idx - 1 - off) \div step
                o == (idx - 1 - off) % step
            IN IF idx <= off \/ o >= cols * cn THEN Uninit
               ELSE Sample(tab, seed, i * cols * cn + o)
    IN [heap |-> << [idx \in 1..(off + rows * step) |-> cell(idx)] >>,
        arg |-> MatOver(1, off, rows, cols, depth, cn, step)]

\* Null and 0x0 sources: they own no memory.
EmptyInputs ==
    { [heap |-> << >>, arg |-> a] :
        a \in {NullImage, EmptyMat, [EmptyMat EXCEPT !.depth = "64F"],
               [EmptyMat EXCEPT !.depth = "16U", !.cn = 3]} }

ImageInputs ==
    { ImageInput(fmt, w, h, seed, tight) :
        fmt \in ImageFormats, w \in 1..MaxW, h \in 1..MaxH, seed \in Seeds,
        tight \in BOOLEAN }

MatInputs ==
    { MatInput(depth, cn, rows, cols, seed, roi) :
        depth \in MatDepths, cn \in 1..4, rows \in 1..MaxH, cols \in 1..MaxW,
        seed \in Seeds, roi \in BOOLEAN }

Inputs == EmptyInputs \cup ImageInputs \cup MatInputs

\* The inputs of a chain of calls: the 3-channel RGB-ordered images whose
\* first pixel has three different bytes.
ChainInputs ==
    { ImageInput("RGB888", w, h, seed, tight) :
        w \in 1..MaxW, h \in 1..MaxH, seed \in {2, 3, 5}, tight \in BOOLEAN }

ChannelArgs == {0, 1, 2, 3, 4, 7}
FormatArgs == {"Indexed8", "RGB888", "RGB32", "ARGB32"}

\* --------------------------------------------------------------- actions
None == [kind |-> "none"]
NoWrite == [row |-> -1, k |-> -1, val |-> -1]

Start(in, n) ==
    /\ noDebug \in BOOLEAN
    /\ heap = in.heap
    /\ arg = in.arg
    /\ x0 = in.arg
    /\ res = None
    /\ outcome = "none"
    /\ hist = << >>
    /\ nread = 0
    /\ nalloc = 0
    /\ lastWrite = NoWrite
    /\ nwrites = 0
    /\ budget = n

Init == \E in \in Inputs : Start(in, MaxCalls)
InitChain == \E in \in ChainInputs : Start(in, MaxChain)

CanCall == outcome = "none" /\ Len(hist) < budget

\* The caller makes the call and keeps what it returns.
Call(name, ch, f, r) ==
    /\ heap' = r.heap
    /\ res' = r.res
    /\ outcome' = r.outcome
    /\ nread' = r.nread
    /\ nalloc' = r.nalloc
    /\ hist' = Append(hist, [name |-> name, ch |-> ch, fmt |-> f])
    /\ lastWrite' = NoWrite
    /\ UNCHANGED <<noDebug, arg, nwrites, budget, x0>>

CallImage2Mat ==
    /\ CanCall /\ arg.kind = "image"
    /\ \E ch \in ChannelArgs : Call("image2Mat", ch, "", image2Mat(heap, arg, ch, noDebug))

CallMat2Image ==
    /\ CanCall /\ arg.kind = "mat"
    /\ \E f \in FormatArgs : Call("mat2Image", -1, f, mat2Image(heap, arg, f, noDebug))

CallImage2MatShared ==
    /\ CanCall /\ arg.kind = "image"
    /\ Call("image2Mat_shared", -1, "", image2Mat_shared(heap, arg, noDebug))

CallMat2ImageShared ==
    /\ CanCall /\ arg.kind = "mat"
    /\ Call("mat2Image_shared", -1, "", mat2Image_shared(heap, arg, noDebug))

LastOp == IF hist = << >> THEN "none" ELSE hist[Len(hist)].name

\* The geometry of an object, whichever type it is.
Rows(x) == IF x.kind = "image" THEN x.h ELSE x.rows
RowBytes(x) == IF x.kind = "image" THEN x.w * (Depth(x.fmt) \div 8) ELSE x.cols * x.cn
Stride(x) == IF x.kind = "image" THEN x.bpl ELSE x.step
IsEmpty(x) == IF x.kind = "image" THEN isNull(x) ELSE empty(x)

\* The byte at (row, byte offset k) read through a header.
ReadAt(h, x, row, k) == h[x.buf][x.off + row * Stride(x) + k + 1]

\* After a shared call returned a view, the caller writes a byte of the
\* source, through the source: at the first or last byte of the first or
\* last row.
WriteSource ==
    /\ outcome = "returned"
    /\ LastOp \in {"image2Mat_shared", "mat2Image_shared"}
    /\ ~IsEmpty(res)
    /\ nwrites < MaxWrites
    /\ \E row \in {0, Rows(arg) - 1}, k \in {0, RowBytes(arg) - 1} :
         LET val == 201 + nwrites
         IN /\ heap' = [heap EXCEPT ![arg.buf][arg.off + row * Stride(arg) + k + 1] = val]
            /\ lastWrite' = [row |-> row, k |-> k, val |-> val]
    /\ nwrites' = nwrites + 1
    /\ UNCHANGED <<noDebug, arg, res, outcome, hist, nread, nalloc, budget, x0>>

\* The caller passes the result on as the next call's source.
Feed ==
    /\ outcome = "returned"
    /\ arg' = res
    /\ res' = None
    /\ outcome' = "none"
    /\ UNCHANGED <<noDebug, heap, hist, nread, nalloc, lastWrite, nwrites, budget, x0>>

Next ==
    \/ CallImage2Mat
    \/ CallMat2Image
    \/ CallImage2MatShared
    \/ CallMat2ImageShared
    \/ WriteSource
    \/ Feed

Spec == Init /\ [][Next]_vars
SpecChain == InitChain /\ [][Next]_vars

\* ---------------------------------------------------------------- claims
\* The state right after a call of name: arg is its source, res its result.
Done(name) == outcome # "none" /\ LastOp = name
Returned(name) == outcome = "returned" /\ LastOp = name
LastCh == hist[Len(hist)].ch
LastFmt == hist[Len(hist)].fmt

SharedCompatible ==
    \/ Done("image2Mat_shared") /\ ~isNull(arg) /\ arg.fmt \in {"Indexed8", "RGB888", "RGB32", "ARGB32"}
    \/ Done("mat2Image_shared") /\ ~empty(arg) /\ arg.depth = "8U" /\ arg.cn \in {1, 3, 4}

\* C1: a shared call on a non-empty source of a compatible layout returns a
\* view that starts at the source's address and has the source's stride,
\* width and height, allocates no buffer, and every byte read through the
\* view at (row, offset) is the byte of the source there, the byte the
\* caller wrote last included.
C1_ZeroCopyAliasing ==
    SharedCompatible =>
        /\ outcome = "returned"
        /\ res.kind # arg.kind /\ ~IsEmpty(res)
        /\ res.buf = arg.buf /\ res.off = arg.off
        /\ Stride(res) = Stride(arg)
        /\ Rows(res) = Rows(arg)
        /\ RowBytes(res) = RowBytes(arg)
        /\ (IF res.kind = "mat" THEN res.cols = arg.w ELSE res.w = arg.cols)
        /\ nalloc = 0
        /\ \A row \in 0..(Rows(arg) - 1), k \in 0..(RowBytes(arg) - 1) :
             ReadAt(heap, res, row, k) = ReadAt(heap, arg, row, k)
        /\ lastWrite # NoWrite =>
             ReadAt(heap, res, lastWrite.row, lastWrite.k) = lastWrite.val

C1_Witness ==
    /\ Returned("image2Mat_shared")
    /\ arg.fmt = "Indexed8" /\ arg.bpl > arg.w /\ arg.h = 2
    /\ nwrites = 2
    /\ lastWrite.row = 1
    /\ res.buf = arg.buf /\ res.step = arg.bpl
    /\ At(heap, res, 1, lastWrite.k, 0) = 202

\* C2 as stated: image2Mat_shared on a source of an unsupported format, or
\* of rows that are not tightly packed, returns the empty cv::Mat, never a
\* view.
C2_Original ==
    (/\ Returned("image2Mat_shared") /\ ~isNull(arg)
     /\ \/ arg.fmt \notin {"Indexed8", "RGB888", "RGB32", "ARGB32"}
        \/ arg.bpl > RowBytes(arg))
    => res = EmptyMat

\* C2 as amended: image2Mat_shared on a non-null source of an unsupported
\* format never returns a view: it returns the empty cv::Mat when Q_ASSERT
\* is compiled out and is stopped by the assertion otherwise; row padding is
\* no reason to reject: a padded source of a supported format gives a view
\* with the source's stride.
C2_Rejection ==
    /\ (Done("image2Mat_shared") /\ ~isNull(arg)
        /\ arg.fmt \notin {"Indexed8", "RGB888", "RGB32", "ARGB32"})
       => /\ nalloc = 0
          /\ IF noDebug THEN outcome = "returned" /\ res = EmptyMat
             ELSE outcome = "aborted" /\ res = None
    /\ (Done("image2Mat_shared") /\ ~isNull(arg)
        /\ arg.fmt \in {"Indexed8", "RGB888", "RGB32", "ARGB32"}
        /\ arg.bpl > RowBytes(arg))
       => outcome = "returned" /\ ~empty(res) /\ res.buf = arg.buf /\ res.step = arg.bpl

C2_Witness ==
    /\ Returned("image2Mat_shared")
    /\ noDebug
    /\ arg.fmt = "RGB16" /\ arg.buf # 0
    /\ res = EmptyMat

\* C3 as stated: every operation called with a null or 0x0 source returns
\* the empty object of its result type, reads no pixel memory and does not
\* abort, whatever its other argument.
C3_Original ==
    (outcome # "none" /\ IsEmpty(arg)) =>
        /\ outcome = "returned"
        /\ res = (IF arg.kind = "image" THEN EmptyMat ELSE NullImage)
        /\ nread = 0

\* The same with nothing wrong but the source: image2Mat_shared on a null
\* QImage returns the empty cv::Mat.
C3_SharedNull == (Done("image2Mat_shared") /\ isNull(arg)) => (outcome = "returned" /\ res = EmptyMat)

\* C4: image2Mat with mat_channels outside {0, 1, 3, 4} never converts:
\* nothing is read or allocated, no non-empty matrix comes back, and with
\* Q_ASSERT compiled out the call returns the empty cv::Mat.
C4_InvalidChannelCount ==
    (Done("image2Mat") /\ LastCh \notin {0, 1, 3, 4}) =>
        /\ nread = 0 /\ nalloc = 0
        /\ IF noDebug THEN outcome = "returned" /\ res = EmptyMat
           ELSE outcome = "aborted" /\ res = None

C4_Witness ==
    /\ Returned("image2Mat")
    /\ LastCh = 7
    /\ ~isNull(arg) /\ arg.fmt = "RGB888"
    /\ res = EmptyMat /\ nalloc = 0

\* C5: for a non-empty RGB888 image x, image2Mat(mat2Image(image2Mat(x, 3),
\* RGB888), 3) has the width, height and channel count of image2Mat(x, 3)
\* and every byte of every pixel is the byte of x at that pixel and channel.
RoundTrip == << [name |-> "image2Mat", ch |-> 3, fmt |-> ""],
                [name |-> "mat2Image", ch |-> -1, fmt |-> "RGB888"],
                [name |-> "image2Mat", ch |-> 3, fmt |-> ""] >>

C5_RoundTrip ==
    (hist = RoundTrip /\ outcome # "none" /\ x0.kind = "image" /\ x0.fmt = "RGB888") =>
        LET first == image2Mat(<< heap[1] >>, x0, 3, noDebug).res
        IN /\ outcome = "returned"
           /\ res.kind = "mat" /\ res.depth = "8U"
           /\ res.rows = first.rows /\ res.cols = first.cols /\ res.cn = first.cn
           /\ res.rows = x0.h /\ res.cols = x0.w /\ res.cn = 3
           /\ \A i \in 0..(x0.h - 1), j \in 0..(x0.w - 1), c \in 0..2 :
                At(heap, res, i, j, c) = ScanByte(heap, x0, i, 3 * j + c)

C5_Witness ==
    /\ hist = RoundTrip /\ outcome = "returned"
    /\ x0.fmt = "RGB888" /\ x0.w = 2 /\ x0.h = 2 /\ x0.bpl = 6
    /\ At(heap, res, 1, 1, 0) = ScanByte(heap, x0, 1, 3)
    /\ At(heap, res, 0, 0, 0) # At(heap, res, 0, 0, 2)

\* The pixels of an object, and the bytes of a pixel of the source image.
PixelsOf(x) == (0..(Rows(x) - 1)) \X (0..((IF x.kind = "image" THEN x.w ELSE x.cols) - 1))
SrcByte(p, c) == ScanByte(heap, arg, p[1], p[2] * (Depth(arg.fmt) \div 8) + c)
\* The pixels of the source image whose three colour bytes were written.
WrittenPixels == { p \in PixelsOf(arg) : \A c \in 0..2 : SrcByte(p, c) # Uninit }

LumaCase ==
    /\ Returned("image2Mat") /\ LastCh = 1
    /\ ~isNull(arg) /\ arg.fmt \in {"RGB888", "RGB32", "ARGB32"}

\* C6 as stated: a 1-channel byte reduced from a 3- or 4-byte pixel is
\* floor((b2*9798 + b1*19238 + b0*3728)/32768) of the pixel's first three
\* bytes in memory order, the sum fits the int, (0,0,0) gives 0 and
\* (255,255,255) gives 255.
C6_Original ==
    LumaCase =>
        \A p \in WrittenPixels :
            LET b0 == SrcByte(p, 0)
                b1 == SrcByte(p, 1)
                b2 == SrcByte(p, 2)
                out == At(heap, res, p[1], p[2], 0)
            IN /\ b2 * 9798 + b1 * 19238 + b0 * 3728 <= IntMax
               /\ out = (b2 * 9798 + b1 * 19238 + b0 * 3728) \div 32768
               /\ (b0 = 0 /\ b1 = 0 /\ b2 = 0) => out = 0
               /\ (b0 = 255 /\ b1 = 255 /\ b2 = 255) => out = 255

\* C6 as amended: the same formula and bound, (0,0,0) gives 0, and
\* (255,255,255) gives 254: the weights sum to 32764, not 32768.
C6_Luminance ==
    LumaCase =>
        /\ res.rows = arg.h /\ res.cols = arg.w /\ res.cn = 1
        /\ \A p \in WrittenPixels :
            LET b0 == SrcByte(p, 0)
                b1 == SrcByte(p, 1)
                b2 == SrcByte(p, 2)
                out == At(heap, res, p[1], p[2], 0)
            IN /\ b2 * 9798 + b1 * 19238 + b0 * 3728 <= IntMax
               /\ out = (b2 * 9798 + b1 * 19238 + b0 * 3728) \div 32768
               /\ (b0 = 0 /\ b1 = 0 /\ b2 = 0) => out = 0
               /\ (b0 = 255 /\ b1 = 255 /\ b2 = 255) => out = 254

C6_Witness ==
    /\ LumaCase
    /\ arg.fmt = "RGB32"
    /\ \E p \in PixelsOf(arg) :
         /\ SrcByte(p, 0) = 10 /\ SrcByte(p, 1) = 20 /\ SrcByte(p, 2) = 30
         /\ At(heap, res, p[1], p[2], 0) = 21
    /\ \E p \in PixelsOf(arg) :
         /\ SrcByte(p, 0) = 255 /\ SrcByte(p, 1) = 255 /\ SrcByte(p, 2) = 255
         /\ At(heap, res, p[1], p[2], 0) = 254

\* The red, green and blue values of a pixel of the source image: RGB888
\* stores R, G, B; a 32-bit QRgb lies in memory as B, G, R, A.
Red(p) == IF arg.fmt = "RGB888" THEN SrcByte(p, 0) ELSE SrcByte(p, 2)
Green(p) == SrcByte(p, 1)
Blue(p) == IF arg.fmt = "RGB888" THEN SrcByte(p, 2) ELSE SrcByte(p, 0)

\* C7 as stated: for RGB888, RGB32 and ARGB32 sources alike, a 1-channel
\* byte is round((R*9798 + G*19238 + B*3728)/32768) of the pixel's red,
\* green and blue values.
C7_Original ==
    LumaCase =>
        \A p \in WrittenPixels :
            At(heap, res, p[1], p[2], 0) =
                (2 * (Red(p) * 9798 + Green(p) * 19238 + Blue(p) * 3728) + 32768) \div 65536

RescaleCase ==
    /\ Returned("mat2Image") /\ ~empty(arg)
    /\ \/ arg.cn = 1 /\ LastFmt \in {"Indexed8", "RGB888", "RGB32"}
       \/ arg.cn = 3 /\ LastFmt \in {"RGB888", "RGB32"}

\* The byte of the result image that holds channel c of pixel p, and the
\* sample of the source matrix it comes from.
OutByte(p, c) == ReadAt(heap, res, p[1], p[2] * (Depth(res.fmt) \div 8) + c)
SrcSample(p, c) == At(heap, arg, p[1], p[2], IF arg.cn = 1 THEN 0 ELSE c)
ColourChannels == IF LastFmt = "Indexed8" THEN {0} ELSE {0, 1, 2}

\* C8 as stated: mat2Image maps a 16-bit value v to floor(v*255/65535)
\* (65535 to 255, 0 to 0, 32768 to 127) and leaves an 8-bit value unchanged.
C8_Original ==
    RescaleCase =>
        \A p \in PixelsOf(arg), c \in ColourChannels :
            LET v == SrcSample(p, c)
            IN /\ arg.depth = "16U" =>
                    /\ OutByte(p, c) = (v * 255) \div 65535
                    /\ v = 32768 => OutByte(p, c) = 127
               /\ arg.depth = "8U" => OutByte(p, c) = v

\* C8 as amended: mat2Image maps a 16-bit value v to the integer nearest to
\* v*255/65535 (rounding, not truncation): 65535 to 255, 0 to 0, 32768 to
\* 128; an 8-bit value is unchanged.
C8_DepthRescale ==
    RescaleCase =>
        \A p \in PixelsOf(arg), c \in ColourChannels :
            LET v == SrcSample(p, c)
            IN /\ arg.depth = "16U" =>
                    /\ OutByte(p, c) = (2 * v * 255 + 65535) \div (2 * 65535)
                    /\ v = 65535 => OutByte(p, c) = 255
                    /\ v = 0 => OutByte(p, c) = 0
                    /\ v = 32768 => OutByte(p, c) = 128
               /\ arg.depth = "8U" => OutByte(p, c) = v

C8_Witness ==
    /\ RescaleCase
    /\ arg.depth = "16U" /\ arg.cn = 3 /\ LastFmt = "RGB888"
    /\ \E p \in PixelsOf(arg) :
         /\ SrcSample(p, 0) = 32768 /\ OutByte(p, 0) = 128
         /\ SrcSample(p, 1) = 128 /\ OutByte(p, 1) = 0
         /\ SrcSample(p, 2) = 129 /\ OutByte(p, 2) = 1

\* C9: mat2Image on a non-empty matrix whose depth is not 8U, 16U or 32F
\* never returns an image: for Indexed8, RGB888 and RGB32 alike it returns
\* the null QImage and allocates nothing when Q_ASSERT is compiled out, and
\* is stopped by the assertion otherwise.
C9_UnsupportedDepth ==
    (/\ Done("mat2Image") /\ ~empty(arg)
     /\ arg.depth \notin {"8U", "16U", "32F"}
     /\ LastFmt \in {"Indexed8", "RGB888", "RGB32"})
    => /\ nalloc = 0
       /\ IF noDebug THEN outcome = "returned" /\ res = NullImage
          ELSE outcome = "aborted" /\ res = None

C9_Witness ==
    /\ Returned("mat2Image")
    /\ noDebug
    /\ arg.depth = "64F" /\ arg.rows = 2 /\ arg.cols = 2 /\ arg.cn = 3
    /\ LastFmt = "RGB32"
    /\ res = NullImage

\* C10: a copying conversion of a non-empty gray/indexed or 3-channel source
\* to four channels (image2Mat with mat_channels 4, mat2Image to RGB32) sets
\* the 4th byte of every pixel to 255; the first three bytes are the source
\* byte three times (gray/indexed) or the pixel's three bytes (3-channel);
\* a source that is normalised first (Mono, RGB16, CV_16U, CV_32F) gets the
\* same 255, and a gray one three equal bytes.
C10_AlphaFill ==
    /\ (Returned("image2Mat") /\ LastCh = 4 /\ ~isNull(arg)
        /\ arg.fmt \in {"Indexed8", "RGB888", "Mono", "MonoLSB", "RGB16"})
       => /\ res.rows = arg.h /\ res.cols = arg.w /\ res.cn = 4
          /\ \A p \in PixelsOf(arg) :
               /\ At(heap, res, p[1], p[2], 3) = 255
               /\ arg.fmt = "Indexed8" =>
                    \A c \in 0..2 : At(heap, res, p[1], p[2], c) = SrcByte(p, 0)
               /\ arg.fmt = "RGB888" =>
                    \A c \in 0..2 : At(heap, res, p[1], p[2], c) = SrcByte(p, c)
               /\ arg.fmt \in MonoFormats =>
                    \A c \in 0..2 : At(heap, res, p[1], p[2], c) = At(heap, res, p[1], p[2], 0)
    /\ (Returned("mat2Image") /\ LastFmt = "RGB32" /\ ~empty(arg)
        /\ arg.cn \in {1, 3} /\ arg.depth \in {"8U", "16U", "32F"})
       => /\ res.kind = "image" /\ res.fmt = "RGB32"
          /\ res.h = arg.rows /\ res.w = arg.cols
          /\ \A p \in PixelsOf(arg) :
               /\ OutByte(p, 3) = 255
               /\ arg.depth = "8U" => \A c \in 0..2 : OutByte(p, c) = SrcSample(p, c)
               /\ arg.cn = 1 => \A c \in 0..2 : OutByte(p, c) = OutByte(p, 0)

C10_Witness ==
    /\ Returned("mat2Image") /\ LastFmt = "RGB32"
    /\ arg.depth = "8U" /\ arg.cn = 3 /\ arg.rows = 2 /\ arg.cols = 2
    /\ arg.step > 6
    /\ OutByte(<<1, 1>>, 3) = 255
    /\ OutByte(<<1, 1>>, 0) = At(heap, arg, 1, 1, 0)
    /\ OutByte(<<1, 1>>, 0) # OutByte(<<1, 1>>, 1)

====
